---------------------------- MODULE Spec2Model ----------------------------
(***************************************************************************)
(* A model of the image converter of src/main.go: the colour parser, the   *)
(* padding parser, the format detector and the two conversion pipelines    *)
(* (PNG -> JPEG and JPEG -> PNG) with their file handles and the canvas    *)
(* they composite.                                                         *)
(*                                                                         *)
(* Go strings are modelled as sequences of one-character strings, so that  *)
(* trimming, splitting, scanning and number parsing are computed the way   *)
(* the code computes them.                                                 *)
(***************************************************************************)
EXTENDS Integers, Sequences, FiniteSets, TLC

VARIABLES
    pc,            \* control point of the running function
    bgColor,       \* the -bg flag / colorStr argument (characters)
    padding,       \* the -padding flag / paddingStr argument (characters)
    padTokens,     \* history: the tokens the padding string was joined from
    parsedColor,   \* what parseBackgroundColor returned
    parsedPadding, \* what parsePadding returned
    inFile,        \* args[0]
    outFile,       \* args[1]
    config,        \* the Config handed to convertImage
    fs,            \* the file system: path -> file
    fs0,           \* history: the file system when the program started
    handles,       \* the os.File handles that are open
    opened,        \* history: every path an open or create was attempted on
    srcImg,        \* the decoded source image
    destImg,       \* the canvas
    err            \* what convertImage returned

vars == << pc, bgColor, padding, padTokens, parsedColor, parsedPadding, inFile,
           outFile, config, fs, fs0, handles, opened, srcImg, destImg, err >>

---------------------------------------------------------------------------
(* Characters and strings                                                  *)

Range(s) == { s[i] : i \in DOMAIN s }

UpperChars == << "A","B","C","D","E","F","G","H","I","J","K","L","M",
                 "N","O","P","Q","R","S","T","U","V","W","X","Y","Z" >>

LowerChars == << "a","b","c","d","e","f","g","h","i","j","k","l","m",
                 "n","o","p","q","r","s","t","u","v","w","x","y","z" >>

DigitChars == << "0","1","2","3","4","5","6","7","8","9" >>

IndexOf(c, s) == CHOOSE i \in DOMAIN s : s[i] = c

\* unicode.ToLower on one ASCII character
ToLowerChar(c) ==
    IF c \in Range(UpperChars) THEN LowerChars[IndexOf(c, UpperChars)] ELSE c

\* strings.ToLower
ToLower(s) == [ i \in DOMAIN s |-> ToLowerChar(s[i]) ]

\* strings.TrimPrefix(s, prefix) for a one-character prefix
TrimPrefix(s, c) == IF Len(s) > 0 /\ s[1] = c THEN Tail(s) ELSE s

IsDigit(c) == c \in Range(DigitChars)

DigitValue(c) == IndexOf(c, DigitChars) - 1

\* the regexp class \w of RE2: [0-9A-Za-z_]
IsWordChar(c) ==
    c \in Range(DigitChars) \cup Range(UpperChars) \cup Range(LowerChars) \cup {"_"}

IsHexDigit(c) == IsDigit(c) \/ ToLowerChar(c) \in {"a","b","c","d","e","f"}

HexDigitValue(c) ==
    IF IsDigit(c) THEN DigitValue(c)
    ELSE 9 + IndexOf(ToLowerChar(c), LowerChars)

---------------------------------------------------------------------------
(* Colours (image/color)                                                   *)

NilColor == [ type |-> "nil", v |-> << >> ]

Gray16(y) == [ type |-> "Gray16", v |-> << y >> ]

\* color.RGBA{R: r, G: g, B: b}: the A field is not set and keeps its zero value
RGBALiteral(r, g, b) == [ type |-> "RGBA", v |-> << r, g, b, 0 >> ]

Alpha16(a) == [ type |-> "Alpha16", v |-> << a >> ]

ColorBlack == Gray16(0)

ColorWhite == Gray16(65535)

ColorTransparent == Alpha16(0)

\* Color.RGBA(): the alpha-premultiplied 16-bit channels of a colour
RGBA16(c) ==
    CASE c.type = "Gray16"  -> << c.v[1], c.v[1], c.v[1], 65535 >>
      [] c.type = "Alpha16" -> << c.v[1], c.v[1], c.v[1], c.v[1] >>
      [] c.type = "RGBA"    -> << c.v[1] * 257, c.v[2] * 257, c.v[3] * 257, c.v[4] * 257 >>

\* the 8-bit channels of a 16-bit colour, as image.RGBA stores them
To8(p) == << p[1] \div 256, p[2] \div 256, p[3] \div 256, p[4] \div 256 >>

---------------------------------------------------------------------------
(* parseBackgroundColor and parseHexColor                                  *)

Str_black == << "b","l","a","c","k" >>

Str_white == << "w","h","i","t","e" >>

Str_red == << "r","e","d" >>

Str_green == << "g","r","e","e","n" >>

Str_blue == << "b","l","u","e" >>

\* what a function returning (color.Color, error) hands back; "panic" is the
\* run-time abort of an index out of range
ColorOk(c) == [ kind |-> "ok", color |-> c ]

ColorErr == [ kind |-> "error", color |-> NilColor ]

ColorPanic == [ kind |-> "panic", color |-> NilColor ]

\* hexReg.FindAllString(s, n): the leftmost non-overlapping matches of \w{2}
RECURSIVE FindAllString(_, _)
FindAllString(s, n) ==
    IF n = 0 \/ Len(s) < 2 THEN << >>
    ELSE IF IsWordChar(s[1]) /\ IsWordChar(s[2])
         THEN << SubSeq(s, 1, 2) >> \o FindAllString(SubSeq(s, 3, Len(s)), n - 1)
         ELSE FindAllString(Tail(s), n)

\* strconv.ParseInt(tok, 16, 64) on a two-character token: -1 stands for the
\* syntax error
ParseHexByte(tok) ==
    IF IsHexDigit(tok[1]) /\ IsHexDigit(tok[2])
    THEN 16 * HexDigitValue(tok[1]) + HexDigitValue(tok[2])
    ELSE -1

parseHexColor(hexStr) ==
    LET colorVals == FindAllString(TrimPrefix(hexStr, "#"), 3) IN
    IF Len(colorVals) < 1 THEN ColorPanic
    ELSE IF ParseHexByte(colorVals[1]) < 0 THEN ColorErr
    ELSE IF Len(colorVals) < 2 THEN ColorPanic
    ELSE IF ParseHexByte(colorVals[2]) < 0 THEN ColorErr
    ELSE IF Len(colorVals) < 3 THEN ColorPanic
    ELSE IF ParseHexByte(colorVals[3]) < 0 THEN ColorErr
    ELSE ColorOk(RGBALiteral(ParseHexByte(colorVals[1]) % 256,
                             ParseHexByte(colorVals[2]) % 256,
                             ParseHexByte(colorVals[3]) % 256))

parseBackgroundColor(colorStr) ==
    LET l == ToLower(colorStr) IN
    CASE l = Str_black -> ColorOk(ColorBlack)
      [] l = Str_white -> ColorOk(ColorWhite)
      [] l = Str_red   -> ColorOk(RGBALiteral(255, 0, 0))
      [] l = Str_green -> ColorOk(RGBALiteral(0, 255, 0))
      [] l = Str_blue  -> ColorOk(RGBALiteral(0, 0, 255))
      [] OTHER         -> parseHexColor(colorStr)

---------------------------------------------------------------------------
(* parsePadding                                                            *)

\* strings.Split(s, ","): the pieces between the commas; one (empty) piece
\* for the empty string
RECURSIVE SplitFrom(_, _)
SplitFrom(s, cur) ==
    IF Len(s) = 0 THEN << cur >>
    ELSE IF s[1] = "," THEN << cur >> \o SplitFrom(Tail(s), << >>)
    ELSE SplitFrom(Tail(s), Append(cur, s[1]))

Split(s) == SplitFrom(s, << >>)

RECURSIVE DigitsValue(_, _)
DigitsValue(s, acc) ==
    IF Len(s) = 0 THEN acc ELSE DigitsValue(Tail(s), 10 * acc + DigitValue(s[1]))

\* strconv.Atoi: an optional sign, then one or more decimal digits. (Atoi also
\* rejects a value outside the 64-bit int; the tokens of this model have at
\* most a few digits, far below that range.)
Atoi(s) ==
    LET signed == Len(s) > 0 /\ s[1] \in {"+", "-"}
        digits == IF signed THEN Tail(s) ELSE s
        mag    == DigitsValue(digits, 0)
        val    == IF signed /\ s[1] = "-" THEN 0 - mag ELSE mag
    IN  IF Len(digits) = 0 \/ \E i \in DOMAIN digits : ~IsDigit(digits[i])
        THEN [ ok |-> FALSE, val |-> 0 ]
        ELSE [ ok |-> TRUE, val |-> val ]

Padding(t, r, b, l) == [ top |-> t, right |-> r, bottom |-> b, left |-> l ]

PaddingOk(p) == [ kind |-> "ok", padding |-> p, msg |-> "" ]

PaddingErr(m) == [ kind |-> "error", padding |-> Padding(0, 0, 0, 0), msg |-> m ]

\* a plausible slip: the two values of the two-token form exchanged
expandTwoSwapped(ypadding, xpadding) == Padding(xpadding, ypadding, xpadding, ypadding)

\* the Padding of the two-token form: top and bottom take the first value,
\* right and left the second
expandTwo(ypadding, xpadding) == Padding(ypadding, xpadding, ypadding, xpadding)

parsePadding(paddingStr) ==
    LET paddings == Split(paddingStr)
        pdArgs   == IF paddingStr = << >> THEN 0 ELSE Len(paddings)
        a(i)     == Atoi(paddings[i])
    IN  CASE pdArgs = 0 -> PaddingOk(Padding(0, 0, 0, 0))
          [] pdArgs = 1 ->
                IF ~a(1).ok THEN PaddingErr("parse padding")
                ELSE PaddingOk(Padding(a(1).val, a(1).val, a(1).val, a(1).val))
          [] pdArgs = 2 ->
                IF ~a(1).ok THEN PaddingErr("parse vertical padding")
                ELSE IF ~a(2).ok THEN PaddingErr("parse horizontal padding")
                ELSE PaddingOk(expandTwo(a(1).val, a(2).val))
          [] pdArgs = 4 ->
                IF ~a(1).ok THEN PaddingErr("parse top padding")
                ELSE IF ~a(2).ok THEN PaddingErr("parse right padding")
                ELSE IF ~a(3).ok THEN PaddingErr("parse bottom padding")
                ELSE IF ~a(4).ok THEN PaddingErr("parse left padding")
                ELSE PaddingOk(Padding(a(1).val, a(2).val, a(3).val, a(4).val))
          [] OTHER -> PaddingErr("invalid padding")

---------------------------------------------------------------------------
(* detectFormat                                                            *)

\* filepath.Ext: the suffix from the last dot of the last path element
RECURSIVE ExtFrom(_, _)
ExtFrom(path, i) ==
    IF i < 1 \/ path[i] = "/" THEN << >>
    ELSE IF path[i] = "." THEN SubSeq(path, i, Len(path))
    ELSE ExtFrom(path, i - 1)

Ext(path) == ExtFrom(path, Len(path))

detectFormat(filename) ==
    LET ext == ToLower(Ext(filename)) IN
    CASE ext = << ".","p","n","g" >>     -> "png"
      [] ext = << ".","j","p","e","g" >> -> "jpeg"
      [] ext = << ".","j","p","g" >>     -> "jpeg"
      [] OTHER                           -> "unknown"

---------------------------------------------------------------------------
(* Rectangles and images (image, image/draw)                               *)

Min2(a, b) == IF a < b THEN a ELSE b

Max2(a, b) == IF a > b THEN a ELSE b

\* image.Rectangle{Min, Max}
Rectangle(x0, y0, x1, y1) == [ Min |-> << x0, y0 >>, Max |-> << x1, y1 >> ]

ZR == Rectangle(0, 0, 0, 0)

\* image.Rect: the rectangle is made well-formed, swapping the coordinates of
\* an axis when the minimum is greater than the maximum
Rect(x0, y0, x1, y1) ==
    Rectangle(Min2(x0, x1), Min2(y0, y1), Max2(x0, x1), Max2(y0, y1))

Dx(r) == r.Max[1] - r.Min[1]

Dy(r) == r.Max[2] - r.Min[2]

Empty(r) == r.Min[1] >= r.Max[1] \/ r.Min[2] >= r.Max[2]

\* Rectangle.Add(p)
AddPt(r, p) ==
    Rectangle(r.Min[1] + p[1], r.Min[2] + p[2], r.Max[1] + p[1], r.Max[2] + p[2])

\* Rectangle.Intersect
Intersect(r, s) ==
    LET t == Rectangle(Max2(r.Min[1], s.Min[1]), Max2(r.Min[2], s.Min[2]),
                       Min2(r.Max[1], s.Max[1]), Min2(r.Max[2], s.Max[2]))
    IN  IF Empty(t) THEN ZR ELSE t

\* the points (x, y) a rectangle holds: Min <= (x, y) < Max
Points(r) ==
    { << x, y >> : x \in r.Min[1] .. (r.Max[1] - 1), y \in r.Min[2] .. (r.Max[2] - 1) }

\* An image: its bounds and its pixels. A decoded source image holds, per
\* pixel, what At(x, y).RGBA() returns (16-bit alpha-premultiplied channels);
\* an *image.RGBA canvas holds 8-bit channels.
Image(r, pix) == [ Rect |-> r, uniform |-> FALSE, Pix |-> pix ]

NoImage == Image(ZR, [ p \in {} |-> << 0, 0, 0, 0 >> ])

\* image.NewRGBA(r): every pixel zero
NewRGBA(r) == Image(r, [ p \in Points(r) |-> << 0, 0, 0, 0 >> ])

\* image.NewUniform(c): one colour over an unbounded rectangle
NewUniform(c) ==
    [ Rect |-> Rectangle(-1000000000, -1000000000, 1000000000, 1000000000),
      uniform |-> TRUE, Pix |-> RGBA16(c) ]

SrcAt(src, p) == IF src.uniform THEN src.Pix ELSE src.Pix[p]

\* draw.Src on one pixel: the source replaces the destination
SrcPix(s) == To8(s)

\* draw.Over on one pixel of an *image.RGBA: d = d * (1 - sa) + s, in 16-bit
\* arithmetic, stored as uint8. The code computes d8 * ((m - sa) * 0x101) / m
\* with m = 0xffff = 0x101 * 0xff, which is d8 * (m - sa) / 0xff.
OverChannel(d, s, sa) == ((((d * (65535 - sa)) \div 255) + s) \div 256) % 256

OverPix(d, s) ==
    << OverChannel(d[1], s[1], s[4]), OverChannel(d[2], s[2], s[4]),
       OverChannel(d[3], s[3], s[4]), OverChannel(d[4], s[4], s[4]) >>

\* draw.Draw(dst, r, src, sp, op): r is clipped to the destination and to
\* the source translated so that sp lands on r.Min; then every pixel of the
\* clipped r takes the source pixel under it
Draw(dst, r, src, sp, op) ==
    LET orig == r.Min
        r1   == Intersect(r, dst.Rect)
        r2   == Intersect(r1, AddPt(src.Rect, << orig[1] - sp[1], orig[2] - sp[2] >>))
        at(p) == SrcAt(src, << sp[1] + (p[1] - orig[1]), sp[2] + (p[2] - orig[2]) >>)
    IN  IF Empty(r2) THEN dst
        ELSE Image(dst.Rect,
                   [ p \in DOMAIN dst.Pix |->
                       IF p \in Points(r2)
                       THEN IF op = "Src" THEN SrcPix(at(p)) ELSE OverPix(dst.Pix[p], at(p))
                       ELSE dst.Pix[p] ])

---------------------------------------------------------------------------
(* The compositing of the two conversions                                  *)

\* a plausible slip: the left padding left out of the width
newWidthNoLeft(bounds, config_) == Dx(bounds) + config_.padding.right

\* newWidth / minWidth
newWidth(bounds, config_) == Dx(bounds) + config_.padding.right + config_.padding.left

\* newHeight / minHeight
newHeight(bounds, config_) == Dy(bounds) + config_.padding.top + config_.padding.bottom

newRect(bounds, config_) ==
    Rect(0, 0, newWidth(bounds, config_), newHeight(bounds, config_))

\* a plausible slip: the two coordinates of the offset exchanged
offsetSwapped(config_) == << config_.padding.top, config_.padding.left >>

\* offset := image.Pt(config.padding.left, config.padding.top)
offset(config_) == << config_.padding.left, config_.padding.top >>

\* the background of the PNG -> JPEG canvas: image.NewUniform(config.bgColor)
bgPNGToJPEG(config_) == NewUniform(config_.bgColor)

\* a plausible slip: the configured colour, as in the other direction
bgJPEGToPNGConfigured(config_) == NewUniform(config_.bgColor)

\* the background of the JPEG -> PNG canvas: image.NewUniform(color.Transparent)
bgJPEGToPNG(config_) == NewUniform(ColorTransparent)

\* NewRGBA, the fill (draw.Src) and the draw of the source (draw.Over)
Composite(src, config_, bg) ==
    LET bounds == src.Rect
        rect   == newRect(bounds, config_)
        filled == Draw(NewRGBA(rect), rect, bg, bounds.Min, "Src")
    IN  Draw(filled, AddPt(bounds, offset(config_)), src, bounds.Min, "Over")

---------------------------------------------------------------------------
(* Files, handles and errors                                               *)

\* a file of the file system: kind is what its bytes are ("png" or "jpeg": a
\* well-formed image of that format, holding img; "garbage": bytes no decoder
\* accepts; "old": the content of a file that was there before the program
\* ran; "empty": just created; "partial": what a failed encoder left)
File(kind, img) == [ exists |-> TRUE, kind |-> kind, img |-> img ]

NoFile == [ exists |-> FALSE, kind |-> "", img |-> NoImage ]

NoErr == [ kind |-> "nil", a |-> "", b |-> "" ]

Unset == [ kind |-> "unset", a |-> "", b |-> "" ]

\* an *os.PathError of os.Open / os.OpenFile
IOErr(op, why) == [ kind |-> "io", a |-> op, b |-> why ]

\* a png.FormatError / jpeg.FormatError of Decode
DecodeErr(format) == [ kind |-> "decode", a |-> format, b |-> "" ]

\* the error of an Encode: a failed write, or png's "invalid image size"
EncodeErr(format, why) == [ kind |-> "encode", a |-> format, b |-> why ]

\* fmt.Errorf("unsupported conversion: %s to %s", inputFormat, outputFormat)
Unsupported(from, to) == [ kind |-> "unsupported", a |-> from, b |-> to ]

NoConfig == [ bgColor |-> NilColor, padding |-> Padding(0, 0, 0, 0) ]

---------------------------------------------------------------------------
(* main: flags to Config                                                   *)

main ==
    /\ pc = "main"
    /\ parsedColor' = parseBackgroundColor(bgColor)
    /\ IF parsedColor'.kind = "panic"
       THEN /\ pc' = "panic"
            /\ UNCHANGED << parsedPadding, config >>
       ELSE IF parsedColor'.kind = "error"
       THEN /\ pc' = "fatal"
            /\ UNCHANGED << parsedPadding, config >>
       ELSE /\ parsedPadding' = parsePadding(padding)
            /\ IF parsedPadding'.kind = "error"
               THEN pc' = "fatal" /\ UNCHANGED config
               ELSE /\ config' = [ bgColor |-> parsedColor'.color,
                                   padding |-> parsedPadding'.padding ]
                    /\ pc' = "convertImage"
    /\ UNCHANGED << bgColor, padding, padTokens, inFile, outFile, fs, fs0,
                    handles, opened, srcImg, destImg, err >>

\* the end of main: log.Fatalln(err) or the closing message; the process
\* exits and the operating system closes whatever is still open
mainExit ==
    /\ pc = "returned"
    /\ pc' = IF err.kind = "nil" THEN "exit0" ELSE "fatal"
    /\ handles' = {}
    /\ UNCHANGED << bgColor, padding, padTokens, parsedColor, parsedPadding,
                    inFile, outFile, config, fs, fs0, opened, srcImg, destImg, err >>

---------------------------------------------------------------------------
(* convertImage                                                            *)

\* a plausible slip: only the input format is looked at
dispatchInputOnly(inputFormat, outputFormat) ==
    CASE inputFormat = "png"  -> "PNGToJPEG.Open"
      [] inputFormat = "jpeg" -> "JPEGToPNG.Open"
      [] OTHER -> "unsupported"

\* the switch of convertImage: where the call goes for a pair of formats
dispatch(inputFormat, outputFormat) ==
    CASE inputFormat = "png" /\ outputFormat = "jpeg" -> "PNGToJPEG.Open"
      [] inputFormat = "jpeg" /\ outputFormat = "png" -> "JPEGToPNG.Open"
      [] OTHER -> "unsupported"

convertImage ==
    /\ pc = "convertImage"
    /\ LET inputFormat  == detectFormat(inFile)
           outputFormat == detectFormat(outFile)
           to           == dispatch(inputFormat, outputFormat)
       IN  IF to = "unsupported"
           THEN /\ err' = Unsupported(inputFormat, outputFormat)
                /\ pc' = "returned"
           ELSE /\ pc' = to
                /\ UNCHANGED err
    /\ UNCHANGED << bgColor, padding, padTokens, parsedColor, parsedPadding,
                    inFile, outFile, config, fs, fs0, handles, opened, srcImg,
                    destImg >>

---------------------------------------------------------------------------
(* The steps of convertPNGToJPEG and convertJPEGToPNG                      *)

\* f, err := os.Open(inputFile); if err != nil { return err }
OpenInput(here, next) ==
    /\ pc = here
    /\ opened' = opened \cup { inFile }
    /\ IF fs[inFile].exists
       THEN handles' = handles \cup { "f" } /\ pc' = next /\ UNCHANGED err
       ELSE err' = IOErr("open", "not exist") /\ pc' = "returned" /\ UNCHANGED handles
    /\ UNCHANGED << bgColor, padding, padTokens, parsedColor, parsedPadding,
                    inFile, outFile, config, fs, fs0, srcImg, destImg >>

\* srcImg, err := png.Decode(f) / jpeg.Decode(f); if err != nil { return err }
Decode(here, format, next) ==
    /\ pc = here
    /\ IF fs[inFile].kind = format
       THEN srcImg' = fs[inFile].img /\ pc' = next /\ UNCHANGED err
       ELSE err' = DecodeErr(format) /\ pc' = "returned" /\ UNCHANGED srcImg
    /\ UNCHANGED << bgColor, padding, padTokens, parsedColor, parsedPadding,
                    inFile, outFile, config, fs, fs0, handles, opened, destImg >>

\* f.Close()
CloseInput(here, next) ==
    /\ pc = here
    /\ handles' = handles \ { "f" }
    /\ pc' = next
    /\ UNCHANGED << bgColor, padding, padTokens, parsedColor, parsedPadding,
                    inFile, outFile, config, fs, fs0, opened, srcImg, destImg, err >>

\* bounds ... draw.Draw(destImg, bounds.Add(offset), srcImg, bounds.Min, draw.Over)
Compose(here, bg, next) ==
    /\ pc = here
    /\ destImg' = Composite(srcImg, config, bg)
    /\ pc' = next
    /\ UNCHANGED << bgColor, padding, padTokens, parsedColor, parsedPadding,
                    inFile, outFile, config, fs, fs0, handles, opened, srcImg, err >>

\* a plausible slip: O_TRUNC in the place of O_EXCL
OpenFileTrunc(file) == [ ok |-> TRUE, file |-> File("empty", NoImage) ]

\* what os.OpenFile(outputFile, O_CREATE|O_WRONLY|O_EXCL, 0644) does to the
\* path: with O_EXCL a file that exists is an error and is left as it is
OpenFileExcl(file) ==
    IF file.exists THEN [ ok |-> FALSE, file |-> file ]
    ELSE [ ok |-> TRUE, file |-> File("empty", NoImage) ]

\* outFile, err := os.OpenFile(...); if err != nil { return err }
CreateOutput(here, next) ==
    /\ pc = here
    /\ opened' = opened \cup { outFile }
    /\ LET r == OpenFileExcl(fs[outFile]) IN
       /\ fs' = [ fs EXCEPT ![outFile] = r.file ]
       /\ IF r.ok
          THEN handles' = handles \cup { "outFile" } /\ pc' = next /\ UNCHANGED err
          ELSE err' = IOErr("open", "file exists") /\ pc' = "returned"
               /\ UNCHANGED handles
    /\ UNCHANGED << bgColor, padding, padTokens, parsedColor, parsedPadding,
                    inFile, outFile, config, fs0, srcImg, destImg >>

\* return jpeg.Encode(outFile, destImg, &jpeg.Options{Quality: 50}) /
\* return png.Encode(outFile, destImg): the bytes are written through the
\* handle; a write may fail part-way, and png refuses an image without area
\* before it writes anything
Encode(here, format) ==
    /\ pc = here
    /\ pc' = "returned"
    /\ IF format = "png" /\ (Dx(destImg.Rect) <= 0 \/ Dy(destImg.Rect) <= 0)
       THEN /\ err' = EncodeErr(format, "invalid image size")
            /\ UNCHANGED fs
       ELSE \/ /\ err' = NoErr
               /\ fs' = [ fs EXCEPT ![outFile] = File(format, destImg) ]
            \/ /\ err' = EncodeErr(format, "write")
               /\ fs' = [ fs EXCEPT ![outFile] = File("partial", NoImage) ]
    /\ UNCHANGED << bgColor, padding, padTokens, parsedColor, parsedPadding,
                    inFile, outFile, config, fs0, handles, opened, srcImg, destImg >>

\* a plausible slip: the output is created first, before the input is opened
PNGToJPEG_OpenOutputFirst == CreateOutput("PNGToJPEG.Open", "PNGToJPEG.Decode")

PNGToJPEG_Open == OpenInput("PNGToJPEG.Open", "PNGToJPEG.Decode")

PNGToJPEG_Decode == Decode("PNGToJPEG.Decode", "png", "PNGToJPEG.Close")

PNGToJPEG_Close == CloseInput("PNGToJPEG.Close", "PNGToJPEG.Compose")

PNGToJPEG_Compose == Compose("PNGToJPEG.Compose", bgPNGToJPEG(config), "PNGToJPEG.Create")

PNGToJPEG_Create == CreateOutput("PNGToJPEG.Create", "PNGToJPEG.Encode")

PNGToJPEG_Encode == Encode("PNGToJPEG.Encode", "jpeg")

convertPNGToJPEG ==
    \/ PNGToJPEG_Open
    \/ PNGToJPEG_Decode
    \/ PNGToJPEG_Close
    \/ PNGToJPEG_Compose
    \/ PNGToJPEG_Create
    \/ PNGToJPEG_Encode

JPEGToPNG_Open == OpenInput("JPEGToPNG.Open", "JPEGToPNG.Decode")

JPEGToPNG_Decode == Decode("JPEGToPNG.Decode", "jpeg", "JPEGToPNG.Close")

JPEGToPNG_Close == CloseInput("JPEGToPNG.Close", "JPEGToPNG.Create")

JPEGToPNG_Create == CreateOutput("JPEGToPNG.Create", "JPEGToPNG.Compose")

JPEGToPNG_Compose == Compose("JPEGToPNG.Compose", bgJPEGToPNG(config), "JPEGToPNG.Encode")

JPEGToPNG_Encode == Encode("JPEGToPNG.Encode", "png")

convertJPEGToPNG ==
    \/ JPEGToPNG_Open
    \/ JPEGToPNG_Decode
    \/ JPEGToPNG_Close
    \/ JPEGToPNG_Create
    \/ JPEGToPNG_Compose
    \/ JPEGToPNG_Encode

---------------------------------------------------------------------------
(* The inputs the model runs the program on                                *)

\* the longest body of a colour string (after an optional '#')
MaxHexLen == 6

\* the most tokens of a padding string
MaxPadTokens == 5

\* the largest padding of an edge, in absolute value, of the canvas runs
MaxPad == 1

\* the largest width and height of a source image
MaxDim == 2

RECURSIVE NatString(_)
NatString(n) ==
    IF n < 10 THEN << DigitChars[n + 1] >>
    ELSE NatString(n \div 10) \o << DigitChars[(n % 10) + 1] >>

\* the decimal text of an integer
Itoa(v) == IF v < 0 THEN << "-" >> \o NatString(0 - v) ELSE NatString(v)

\* the texts joined with commas
RECURSIVE Join(_)
Join(ts) ==
    IF Len(ts) = 0 THEN << >>
    ELSE IF Len(ts) = 1 THEN ts[1]
    ELSE ts[1] \o << "," >> \o Join(Tail(ts))

SeqsUpTo(S, n) == UNION { [ 1 .. k -> S ] : k \in 0 .. n }

\* colour strings: the named colours in several cases, and every string of
\* up to MaxHexLen characters over a decimal digit, a lower-case and an
\* upper-case hex digit, a word character that is no hex digit and a
\* character that is no word character, with and without a leading '#'
NamedInputs ==
    { Str_black, Str_white, Str_red, Str_green, Str_blue,
      << "B","L","A","C","K" >>, << "W","h","i","t","e" >>, << "R","E","D" >>,
      << "G","r","E","e","N" >>, << "b","l","u","E" >> }

ColorAlphabet == { "9", "a", "F", "g", "#" }

ColorInputs ==
    NamedInputs
    \cup { pre \o body : pre \in { << >>, << "#" >> },
                         body \in SeqsUpTo(ColorAlphabet, MaxHexLen) }

\* padding tokens: the text, whether it is a base-10 integer, and its value
IntToken(txt, v) == [ txt |-> txt, int |-> TRUE, val |-> v ]

BadToken(txt) == [ txt |-> txt, int |-> FALSE, val |-> 0 ]

PadTokenSet ==
    { IntToken(Itoa(v), v) : v \in { -3, 0, 12 } }
    \cup { IntToken(<< "+" >> \o Itoa(7), 7), BadToken(<< "x" >>), BadToken(<< >>) }

Texts(tokens) == [ i \in DOMAIN tokens |-> tokens[i].txt ]

\* file names
Path_a_png == << "a", ".", "p", "n", "g" >>

Path_b_PNG == << "b", ".", "P", "N", "G" >>

Path_c_jpg == << "c", ".", "j", "p", "g" >>

Path_d_JPeG == << "d", ".", "J", "P", "e", "G" >>

Path_e_gif == << "e", ".", "g", "i", "f" >>

Path_f_png_g == << "f", ".", "p", "n", "g", "/", "g" >>

Path_h == << "h" >>

Paths ==
    { Path_a_png, Path_b_PNG, Path_c_jpg, Path_d_JPeG, Path_e_gif, Path_f_png_g,
      Path_h }

\* pixels, as At(x, y).RGBA() returns them
PaletteOpaque ==
    << << 65535, 0, 32896, 65535 >>, << 4660, 22136, 39612, 65535 >>,
       << 0, 65535, 0, 65535 >>, << 257, 514, 771, 65535 >> >>

PaletteAlpha ==
    << << 65535, 0, 32896, 65535 >>, << 16448, 8224, 0, 32896 >>,
       << 0, 0, 0, 0 >>, << 4660, 22136, 39612, 65535 >> >>

\* a w x h image at the origin, as the decoders return it, whose neighbouring
\* pixels differ
SourceImage(w, h, palette) ==
    Image(Rect(0, 0, w, h),
          [ p \in Points(Rect(0, 0, w, h)) |->
              palette[((p[1] + 2 * p[2]) % Len(palette)) + 1] ])

Dims == 1 .. MaxDim

\* PNG files hold pixels of any alpha; the images jpeg.Decode returns
\* (YCbCr, Gray, CMYK) are opaque
PNGFiles ==
    { File("png", SourceImage(w, h, pal)) :
        w \in Dims, h \in Dims, pal \in { PaletteOpaque, PaletteAlpha } }

JPEGFiles == { File("jpeg", SourceImage(w, h, PaletteOpaque)) : w \in Dims, h \in Dims }

OldFile == File("old", NoImage)

Str_hex == << "#", "0", "a", "1", "B", "2", "c" >>

BgSamples ==
    { Str_white, << "R", "E", "D" >>, Str_hex, << "0", "a", "1", "b" >>,
      << "z", "z", "0", "0", "0", "0" >>, << >> }

PadSamples ==
    { << >>, << "2" >>, << "1", ",", "2" >>, << "1", ",", "2", ",", "3" >>,
      << "1", ",", "2", ",", "3", ",", "4" >>, << "x" >> }

Scenario(bg, pad, in, out, inF, outF) ==
    [ bg |-> bg, pad |-> pad, in |-> in, out |-> out, inF |-> inF, outF |-> outF ]

\* every pair of paths, over every state of the two files
IOScenarios ==
    { Scenario(Str_white, << "1" >>, in, out, inF, outF) :
        in \in Paths, out \in Paths,
        inF \in { NoFile, File("garbage", NoImage),
                  File("png", SourceImage(1, 1, PaletteAlpha)),
                  File("jpeg", SourceImage(1, 1, PaletteOpaque)) },
        outF \in { NoFile, OldFile } }

\* the flags
FlagScenarios ==
    { Scenario(bg, pad, Path_a_png, Path_c_jpg,
               File("png", SourceImage(1, 1, PaletteAlpha)), NoFile) :
        bg \in BgSamples, pad \in PadSamples }

PadRange == (0 - MaxPad) .. MaxPad

PadStrings ==
    { Join(<< Itoa(t), Itoa(r), Itoa(b), Itoa(l) >>) :
        t \in PadRange, r \in PadRange, b \in PadRange, l \in PadRange }

\* the conversions proper: every padding, image and direction
CanvasScenarios ==
    { Scenario(bg, pad, Path_a_png, Path_c_jpg, inF, NoFile) :
        bg \in { Str_white, Str_hex }, pad \in PadStrings, inF \in PNGFiles }
    \cup
    { Scenario(bg, pad, Path_c_jpg, Path_a_png, inF, NoFile) :
        bg \in { Str_white, Str_hex }, pad \in PadStrings, inF \in JPEGFiles }

Scenarios == IOScenarios \cup FlagScenarios \cup CanvasScenarios

---------------------------------------------------------------------------
(* Specifications                                                          *)

\* the program, from main to its exit
Init ==
    \E sc \in Scenarios :
        /\ pc = "main"
        /\ bgColor = sc.bg
        /\ padding = sc.pad
        /\ padTokens = << >>
        /\ parsedColor = ColorErr
        /\ parsedPadding = PaddingErr("")
        /\ inFile = sc.in
        /\ outFile = sc.out
        /\ config = NoConfig
        /\ fs = [ p \in { sc.in, sc.out } |-> IF p = sc.in THEN sc.inF ELSE sc.outF ]
        /\ fs0 = fs
        /\ handles = {}
        /\ opened = {}
        /\ srcImg = NoImage
        /\ destImg = NoImage
        /\ err = Unset

Next ==
    \/ main
    \/ convertImage
    \/ convertPNGToJPEG
    \/ convertJPEGToPNG
    \/ mainExit

Spec == Init /\ [][Next]_vars

NoFiles == [ p \in { << >> } |-> NoFile ]

\* parseBackgroundColor alone, on every colour string
InitColor ==
    /\ pc = "parseBackgroundColor"
    /\ bgColor \in ColorInputs
    /\ padding = << >>
    /\ padTokens = << >>
    /\ parsedColor = ColorErr
    /\ parsedPadding = PaddingErr("")
    /\ inFile = << >>
    /\ outFile = << >>
    /\ config = NoConfig
    /\ fs = NoFiles
    /\ fs0 = NoFiles
    /\ handles = {}
    /\ opened = {}
    /\ srcImg = NoImage
    /\ destImg = NoImage
    /\ err = Unset

CallParseBackgroundColor ==
    /\ pc = "parseBackgroundColor"
    /\ parsedColor' = parseBackgroundColor(bgColor)
    /\ pc' = "done"
    /\ UNCHANGED << bgColor, padding, padTokens, parsedPadding, inFile, outFile,
                    config, fs, fs0, handles, opened, srcImg, destImg, err >>

SpecColor == InitColor /\ [][CallParseBackgroundColor]_vars

\* parsePadding alone, on every padding string of up to MaxPadTokens tokens
InitPadding ==
    /\ pc = "parsePadding"
    /\ padTokens \in SeqsUpTo(PadTokenSet, MaxPadTokens)
    /\ padding = Join(Texts(padTokens))
    /\ bgColor = << >>
    /\ parsedColor = ColorErr
    /\ parsedPadding = PaddingErr("")
    /\ inFile = << >>
    /\ outFile = << >>
    /\ config = NoConfig
    /\ fs = NoFiles
    /\ fs0 = NoFiles
    /\ handles = {}
    /\ opened = {}
    /\ srcImg = NoImage
    /\ destImg = NoImage
    /\ err = Unset

CallParsePadding ==
    /\ pc = "parsePadding"
    /\ parsedPadding' = parsePadding(padding)
    /\ pc' = "done"
    /\ UNCHANGED << bgColor, padding, padTokens, parsedColor, inFile, outFile,
                    config, fs, fs0, handles, opened, srcImg, destImg, err >>

SpecPadding == InitPadding /\ [][CallParsePadding]_vars

---------------------------------------------------------------------------
(* Properties                                                              *)

IsNamed(str) == ToLower(str) \in { Str_black, Str_white, Str_red, Str_green, Str_blue }

\* six hex digits, with or without a leading '#'
IsWellFormedHex(str) ==
    LET body == TrimPrefix(str, "#") IN
    Len(body) = 6 /\ \A i \in 1 .. 6 : IsHexDigit(body[i])

HexPair(body, i) == 16 * HexDigitValue(body[i]) + HexDigitValue(body[i + 1])

\* the channels (R, G, B, A) the colour of a string is documented to have
ExpectedChannels(str) ==
    LET l    == ToLower(str)
        body == TrimPrefix(str, "#")
    IN  CASE l = Str_black -> << 0, 0, 0, 255 >>
          [] l = Str_white -> << 255, 255, 255, 255 >>
          [] l = Str_red   -> << 255, 0, 0, 255 >>
          [] l = Str_green -> << 0, 255, 0, 255 >>
          [] l = Str_blue  -> << 0, 0, 255, 255 >>
          [] OTHER -> << HexPair(body, 1), HexPair(body, 3), HexPair(body, 5), 255 >>

\* C1: a named colour (any case) or a well-formed six-digit hex string parses
\* to a colour with the expected R, G, B and a fully opaque alpha (255).
C1_ColorChannelsOpaque ==
    (pc = "done" /\ (IsNamed(bgColor) \/ IsWellFormedHex(bgColor)))
        => /\ parsedColor.kind = "ok"
           /\ To8(RGBA16(parsedColor.color)) = ExpectedChannels(bgColor)

\* the tokens the hex scan finds in a string
HexTokens(str) == FindAllString(TrimPrefix(str, "#"), 3)

IsMalformedHex(str) ==
    \/ Len(HexTokens(str)) < 3
    \/ \E i \in DOMAIN HexTokens(str) : ParseHexByte(HexTokens(str)[i]) < 0

\* C2: a string that is no named colour and has fewer than three two-character
\* tokens, or a token that is not hexadecimal, makes the parser return an
\* error: it returns no colour and it does not abort.
C2_MalformedHexIsError ==
    (pc = "done" /\ ~IsNamed(bgColor) /\ IsMalformedHex(bgColor))
        => parsedColor.kind = "error"

AllInts(tokens) == \A i \in DOMAIN tokens : tokens[i].int

\* C3: a padding string of integer tokens expands as documented: none -> all
\* edges 0; v -> all edges v; v1,v2 -> top = bottom = v1 and right = left =
\* v2; t,r,b,l -> (top, right, bottom, left); any other count is an error.
C3_PaddingExpansion ==
    (pc = "done" /\ AllInts(padTokens)) =>
        LET n    == Len(padTokens)
            v(i) == padTokens[i].val
        IN  CASE n = 0 -> parsedPadding = PaddingOk(Padding(0, 0, 0, 0))
              [] n = 1 -> parsedPadding = PaddingOk(Padding(v(1), v(1), v(1), v(1)))
              [] n = 2 -> parsedPadding = PaddingOk(Padding(v(1), v(2), v(1), v(2)))
              [] n = 4 -> parsedPadding = PaddingOk(Padding(v(1), v(2), v(3), v(4)))
              [] OTHER -> parsedPadding.kind = "error"

C3_Witness ==
    /\ pc = "done"
    /\ Len(padTokens) = 2
    /\ padTokens[1].val = -3
    /\ padTokens[2].txt = << "+", "7" >>
    /\ parsedPadding = PaddingOk(Padding(-3, 7, -3, 7))

\* the format each file name of the model has by its extension
ExpectedFormat(path) ==
    CASE path \in { Path_a_png, Path_b_PNG }  -> "png"
      [] path \in { Path_c_jpg, Path_d_JPeG } -> "jpeg"
      [] OTHER -> "unknown"

IsSupported(in, out) ==
    << ExpectedFormat(in), ExpectedFormat(out) >> \in { << "png", "jpeg" >>, << "jpeg", "png" >> }

InPNGToJPEG ==
    pc \in { "PNGToJPEG.Open", "PNGToJPEG.Decode", "PNGToJPEG.Close",
             "PNGToJPEG.Compose", "PNGToJPEG.Create", "PNGToJPEG.Encode" }

InJPEGToPNG ==
    pc \in { "JPEGToPNG.Open", "JPEGToPNG.Decode", "JPEGToPNG.Close",
             "JPEGToPNG.Create", "JPEGToPNG.Compose", "JPEGToPNG.Encode" }

\* convertImage has returned
Returned == pc = "returned" \/ (pc \in { "exit0", "fatal" } /\ err # Unset)

\* C4: a conversion is entered only for the pairs (png, jpeg) and (jpeg, png)
\* of the case-insensitively detected formats; every other pair returns the
\* unsupported-conversion error naming both formats, with no file opened,
\* created or written.
C4_UnsupportedBeforeIO ==
    /\ InPNGToJPEG => ExpectedFormat(inFile) = "png" /\ ExpectedFormat(outFile) = "jpeg"
    /\ InJPEGToPNG => ExpectedFormat(inFile) = "jpeg" /\ ExpectedFormat(outFile) = "png"
    /\ (Returned /\ IsSupported(inFile, outFile)) => err.kind # "unsupported"
    /\ (Returned /\ ~IsSupported(inFile, outFile)) =>
          /\ err = Unsupported(ExpectedFormat(inFile), ExpectedFormat(outFile))
          /\ opened = {}
          /\ handles = {}
          /\ fs = fs0

C4_Witness ==
    /\ pc = "returned"
    /\ inFile = Path_b_PNG
    /\ outFile = Path_a_png
    /\ fs[inFile].kind = "png"
    /\ err = Unsupported("png", "png")
    /\ opened = {}

C6_HandlesReleasedOnReturn == pc = "returned" => handles = {}

\* the colours a background may be configured to
OtherColors ==
    { ColorBlack, ColorWhite, RGBALiteral(255, 0, 0), RGBALiteral(10, 27, 44) }

WithBg(c) == [ config EXCEPT !.bgColor = c ]

\* the source rectangle, moved by the offset
SourceRect == AddPt(srcImg.Rect, << config.padding.left, config.padding.top >>)

\* C7: the canvas of the jpeg-to-png direction is the same whatever the
\* configured background colour, and its pixels outside the offset source
\* rectangle have alpha 0.
C7_TransparentWhateverBg ==
    pc = "JPEGToPNG.Encode" =>
        /\ \A c \in OtherColors :
              destImg = Composite(srcImg, WithBg(c), bgJPEGToPNG(WithBg(c)))
        /\ \A p \in DOMAIN destImg.Pix :
              p \notin Points(SourceRect) => destImg.Pix[p][4] = 0

C7_Witness ==
    /\ pc = "JPEGToPNG.Encode"
    /\ config.bgColor = ColorWhite
    /\ config.padding = Padding(1, 1, 1, 1)
    /\ destImg.Pix[<< 0, 0 >>] = << 0, 0, 0, 0 >>
    /\ destImg.Pix[<< 1, 1 >>][4] = 255

\* the canvas has just been composited
Composited == pc \in { "PNGToJPEG.Create", "JPEGToPNG.Encode" }

SumW == Dx(srcImg.Rect) + config.padding.left + config.padding.right

SumH == Dy(srcImg.Rect) + config.padding.top + config.padding.bottom

Abs(n) == IF n < 0 THEN 0 - n ELSE n

\* C8 as stated: for every padding, negative values included, the canvas is
\* source width + left + right wide and source height + top + bottom high.
C8_CanvasSizeIsSum ==
    Composited => Dx(destImg.Rect) = SumW /\ Dy(destImg.Rect) = SumH

\* C8 as amended: the canvas is the well-formed rectangle between (0, 0) and
\* (W, H), W and H being the two sums: |W| wide and |H| high, which is W and H
\* when the sums are not negative.
C8_CanvasSizeIsAbsSum ==
    Composited =>
        /\ destImg.Rect = Rectangle(Min2(0, SumW), Min2(0, SumH), Max2(0, SumW), Max2(0, SumH))
        /\ Dx(destImg.Rect) = Abs(SumW)
        /\ Dy(destImg.Rect) = Abs(SumH)
        /\ Cardinality(DOMAIN destImg.Pix) = Abs(SumW) * Abs(SumH)
        /\ (SumW >= 0 /\ SumH >= 0) => (Dx(destImg.Rect) = SumW /\ Dy(destImg.Rect) = SumH)

C8_Witness ==
    /\ pc = "PNGToJPEG.Create"
    /\ config.padding = Padding(1, -1, 0, -1)
    /\ Dx(srcImg.Rect) = 1
    /\ Dy(srcImg.Rect) = 2
    /\ destImg.Rect = Rectangle(-1, 0, 0, 3)

NonNegative(pd) == pd.top >= 0 /\ pd.right >= 0 /\ pd.bottom >= 0 /\ pd.left >= 0

\* the colour the canvas of the running direction is filled with
Fill == IF pc = "PNGToJPEG.Create" THEN To8(RGBA16(config.bgColor)) ELSE << 0, 0, 0, 0 >>

\* the source pixel that lands on canvas pixel p
Under(p) == srcImg.Pix[<< p[1] - config.padding.left, p[2] - config.padding.top >>]

\* C9: with non-negative padding, after the fill and the draw every canvas
\* pixel outside [left, left+srcW) x [top, top+srcH) is the fill colour and
\* every pixel inside is the source pixel at (x-left, y-top) over the fill,
\* which is the source pixel when that is opaque; with zero padding the
\* canvas has the source's bounds.
C9_FillThenDraw ==
    (Composited /\ NonNegative(config.padding)) =>
        /\ DOMAIN destImg.Pix = Points(Rectangle(0, 0, SumW, SumH))
        /\ \A p \in DOMAIN destImg.Pix :
              IF /\ config.padding.left <= p[1]
                 /\ p[1] < config.padding.left + Dx(srcImg.Rect)
                 /\ config.padding.top <= p[2]
                 /\ p[2] < config.padding.top + Dy(srcImg.Rect)
              THEN /\ destImg.Pix[p] = OverPix(Fill, Under(p))
                   /\ Under(p)[4] = 65535 => destImg.Pix[p] = To8(Under(p))
              ELSE destImg.Pix[p] = Fill
        /\ config.padding = Padding(0, 0, 0, 0) =>
              /\ destImg.Rect = srcImg.Rect
              /\ (\A q \in DOMAIN srcImg.Pix : srcImg.Pix[q][4] = 65535)
                    => \A q \in DOMAIN srcImg.Pix : destImg.Pix[q] = To8(srcImg.Pix[q])

C9_Witness ==
    /\ pc = "PNGToJPEG.Create"
    /\ config.padding = Padding(0, 1, 1, 1)
    /\ srcImg = SourceImage(2, 1, PaletteAlpha)
    /\ config.bgColor = RGBALiteral(10, 27, 44)
    /\ destImg.Pix[<< 0, 0 >>] = << 10, 27, 44, 0 >>
    /\ destImg.Pix[<< 1, 0 >>] = << 255, 0, 128, 255 >>
    /\ destImg.Pix[<< 2, 0 >>] = << 69, 45, 21, 128 >>
    /\ destImg.Pix[<< 3, 1 >>] = << 10, 27, 44, 0 >>

\* C10: the output is created only after the input has been opened and
\* decoded; when opening or decoding the input fails the output path is never
\* created and the file system is as it was.
C10_OutputAfterDecode ==
    /\ outFile \in opened =>
          /\ inFile \in opened
          /\ fs0[inFile].kind \in { "png", "jpeg" }
          /\ srcImg = fs0[inFile].img
    /\ fs # fs0 => outFile \in opened
    /\ (Returned /\ (err = IOErr("open", "not exist") \/ err.kind = "decode")) =>
          /\ fs = fs0
          /\ outFile \notin opened

C10_Witness ==
    /\ pc = "returned"
    /\ err = DecodeErr("jpeg")
    /\ inFile \in opened
    /\ outFile \notin opened
    /\ ~fs[outFile].exists
    /\ fs = fs0

=============================================================================
